---------------------------- MODULE Spec2Model ----------------------------
(***************************************************************************)
(* A model of graphql-comments-service: the in-memory store                *)
(* (internal/storage/inmemory/store.go), the PostgreSQL store              *)
(* (internal/storage/postgres/store.go), the GraphQL resolvers that page   *)
(* through comments, create them and publish them to the subscribers of    *)
(* the CommentObserver (graph/schema.resolvers.go, graph/resolver.go) and  *)
(* the batch function of the request loaders (internal/dataloader).        *)
(*                                                                         *)
(* Identifiers are small integers: uuid.NewString() is modelled as the     *)
(* choice of an identifier that is not in use.  A comment body is a        *)
(* sequence of runs [cp, n]: n repetitions of the Unicode code point cp,   *)
(* so that len(), which counts UTF-8 bytes, and the number of characters   *)
(* are both computed from it.  Identifiers are handed out in creation      *)
(* order; no operation of the code compares two identifiers for order.     *)
(* Creation times are readings of the clock `now`, which Tick advances:    *)
(* two creations between two ticks read the same value.                    *)
(***************************************************************************)
EXTENDS Integers, Sequences, FiniteSets, TLC

\* ------------------------------------------------------------ bounds
MaxPosts == 2

MaxComments == 2

MaxTime == 1

\* Rows of the postgres table comments.
MaxRows == 3

\* Concurrent callers of the postgres store.
NumCallers == 2

\* The largest limit a listing asks for.
MaxLimit == 2

\* The most parent identifiers one batch asks for.
MaxKeys == 2

\* Subscriptions ever made.
MaxSubs == 2

\* Comments of the in-memory store when pages are walked while comments are
\* created.
MaxSiblings == 3

\* ------------------------------------------------- program constants
\* store.go:111 and postgres/store.go:96: len(comment.Content) > 2000
MaxContentLen == 2000

\* part_000:129: `l := 10` of postResolver.Comments
DefaultCommentsLimit == 10

\* part_000:37: `l := 5` of commentResolver.Children
DefaultChildrenLimit == 5

\* ------------------------------------------------------------- state
VARIABLES
    posts,             \* inmemory.Store.posts: postID -> [enabled]
    comments,          \* inmemory.Store.comments: commentID -> [postID, parentID, createdAt]
    commentsByPost,    \* inmemory.Store.commentsByPost: postID -> <<root comment ids>>
    commentsByParent,  \* inmemory.Store.commentsByParent: parentID -> <<child ids>>
    requested,         \* history: postID -> the flag value the latest CreatePost/ToggleComments asked for
    scenario,          \* history: how far the calls on post 1 have followed ScenarioSteps
    last,              \* the latest call of the in-memory store and its result
    held,              \* the *domain.Post or *domain.Comment a caller keeps from a call,
                       \*   history: the field value it had when the call returned (seen)
    now,               \* the wall clock read by time.Now()
    pgPosts,           \* postgres table posts: id -> [enabled]
    pgComments,        \* postgres table comments: id -> [postID, parentID, createdAt]
    tx,                \* postgres.Store calls in flight: caller -> where it stands
    pgLast,            \* the postgres.Store call that returned in the latest step
    page,              \* the CommentConnection a resolver returned in the latest step
    subs,              \* CommentObserver.subs: postID -> the subIDs of its inner map
    chans,             \* the channel of each subscription: subID -> the comments buffered
    ctx,               \* each subscription: subID -> [postID, state of its request context,
                       \*   history: the comments stored when it was registered (since),
                       \*   history: the comment its client read last (got)]
    pubs,              \* the publishing goroutines of CreateComment that are running
    mut,               \* mutationResolver.CreateComment in flight: where it stands
    crashed            \* the runtime has ended the process with a fatal error

memVars == <<posts, comments, commentsByPost, commentsByParent>>

memSide == <<posts, comments, commentsByPost, commentsByParent, requested, scenario, last, held>>

pgSide == <<pgPosts, pgComments, tx, pgLast>>

hubSide == <<subs, chans, ctx, pubs, mut, crashed>>

vars == <<posts, comments, commentsByPost, commentsByParent, requested, scenario, last,
          held, now, pgPosts, pgComments, tx, pgLast, page,
          subs, chans, ctx, pubs, mut, crashed>>

\* ------------------------------------------------------- identifiers
\* A nil *string (no parent, no cursor).
None == 0

PostIDs == 1..MaxPosts

CommentIDs == 1..MaxComments

\* What a caller may pass as a post identifier: one more than can exist,
\* so that an identifier naming no post is always among them.
PostArgs == 1..(MaxPosts + 1)

\* What a caller may pass as a parent identifier or cursor.
CommentArgs == 1..(MaxComments + 1)

ParentArgs == {None} \cup CommentArgs

\* Identifiers of rows of the postgres table comments, and what a caller
\* may pass for one.
RowArgs == 1..(MaxRows + 1)

ParentArgsPg == {None} \cup RowArgs

Callers == 1..NumCallers

\* A caller of the postgres store that is in no call.
Idle == [pc |-> "idle"]

\* No postgres call returned in the latest step.
NoCall == [op |-> "none"]

\* The caller keeps no pointer.
NoRef == [kind |-> "none"]

\* No listing was answered in the latest step.
NoPage == [op |-> "none"]

\* The paged listings: postResolver.Comments and commentResolver.Children.
ListingOps == {"Comments", "Children"}

\* ------------------------------------------------------------ bodies
Run(cp, n) == [cp |-> cp, n |-> n]

\* utf8.RuneLen: the bytes of one code point in a Go string.
Utf8Len(cp) ==
    IF cp < 128 THEN 1 ELSE IF cp < 2048 THEN 2 ELSE IF cp < 65536 THEN 3 ELSE 4

RECURSIVE ByteLen(_)
\* len(s) of a Go string: its length in bytes.
ByteLen(s) ==
    IF s = <<>> THEN 0 ELSE Head(s).n * Utf8Len(Head(s).cp) + ByteLen(Tail(s))

RECURSIVE CharCount(_)
\* The number of characters (code points) of the string.
CharCount(s) == IF s = <<>> THEN 0 ELSE Head(s).n + CharCount(Tail(s))

\* unicode.IsSpace
IsSpace(cp) ==
    cp \in {9, 10, 11, 12, 13, 32, 133, 160, 5760, 8232, 8233, 8239, 8287, 12288}
            \cup (8192..8202)

RECURSIVE TrimLeft(_)
TrimLeft(s) ==
    IF s = <<>> THEN s
    ELSE IF IsSpace(Head(s).cp) THEN TrimLeft(Tail(s)) ELSE s

RECURSIVE TrimRight(_)
TrimRight(s) ==
    IF s = <<>> THEN s
    ELSE IF IsSpace(s[Len(s)].cp) THEN TrimRight(SubSeq(s, 1, Len(s) - 1)) ELSE s

\* strings.TrimSpace
TrimSpace(s) == TrimRight(TrimLeft(s))

\* The bodies callers send: empty, blanks, one letter, padded letter,
\* exactly 2000 and 2001 ASCII letters, 1001 Cyrillic letters (2002 bytes),
\* 2001 blanks.
Bodies ==
    { <<>>,
      <<Run(32, 2)>>,
      <<Run(97, 1)>>,
      <<Run(32, 1), Run(97, 1), Run(10, 1)>>,
      <<Run(97, MaxContentLen)>>,
      <<Run(97, MaxContentLen + 1)>>,
      <<Run(1103, (MaxContentLen \div 2) + 1)>>,
      <<Run(32, MaxContentLen + 1)>> }

\* The bodies the modelled calls send: one of each kind.
CallBodies ==
    { <<Run(32, 2)>>,
      <<Run(97, 1)>>,
      <<Run(97, MaxContentLen + 1)>>,
      <<Run(1103, (MaxContentLen \div 2) + 1)>> }

\* ------------------------------------------------------------ errors
ErrPostNotFound == "post not found"

ErrCommentsDisabled == "comments are disabled for this post"

ErrTooLong == "comment content is too long"

ErrEmpty == "comment content cannot be empty"

ErrParentNotFound == "parent comment not found"

ErrNotFound == "post with id not found"

Ok == "ok"

\* The spec's InvalidBody: either of the two body errors.
InvalidBody == {ErrTooLong, ErrEmpty}

\* --------------------------------------------------- in-memory store
\* uuid.NewString(): an identifier not in use (the next one).
NewID(used) == Cardinality(used) + 1

\* A function extended or overwritten at one key.
Put(f, k, v) == [x \in DOMAIN f \cup {k} |-> IF x = k THEN v ELSE f[x]]

\* s.commentsByPost[id] / s.commentsByParent[id]: a missing key reads as nil.
Lookup(index, k) == IF k \in DOMAIN index THEN index[k] ELSE <<>>

Init ==
    /\ posts = <<>>
    /\ comments = <<>>
    /\ commentsByPost = <<>>
    /\ commentsByParent = <<>>
    /\ requested = <<>>
    /\ scenario = 0
    /\ last = [op |-> "New", err |-> Ok]
    /\ held = NoRef
    /\ now = 0
    /\ pgPosts = <<>>
    /\ pgComments = <<>>
    /\ tx = [q \in Callers |-> Idle]
    /\ pgLast = NoCall
    /\ page = NoPage
    /\ subs = <<>>
    /\ chans = <<>>
    /\ ctx = <<>>
    /\ pubs = {}
    /\ mut = Idle
    /\ crashed = FALSE

\* The clock advances.
Tick ==
    /\ now < MaxTime
    /\ now' = now + 1
    /\ UNCHANGED <<memSide, pgSide, hubSide, page>>

\* The spec's scenario on post 1: comments toggled off, a CreateComment
\* refused with CommentsDisabled, comments toggled on, a CreateComment
\* accepted.  Step(op, postID, flag, err) is the stage reached after a call.
ScenarioSteps ==
    << [op |-> "ToggleComments", flag |-> FALSE, err |-> Ok],
       [op |-> "CreateComment", flag |-> FALSE, err |-> ErrCommentsDisabled],
       [op |-> "ToggleComments", flag |-> TRUE, err |-> Ok],
       [op |-> "CreateComment", flag |-> TRUE, err |-> Ok] >>

Step(op, postID, flag, err) ==
    IF /\ scenario < Len(ScenarioSteps)
       /\ postID = 1
       /\ ScenarioSteps[scenario + 1] = [op |-> op, flag |-> flag, err |-> err]
    THEN scenario + 1
    ELSE scenario

\* Store.CreatePost: the draft is given an identifier and is itself put in
\* s.posts, its flag as the caller set it.
StorePost(enabled) ==
    /\ Cardinality(DOMAIN posts) < MaxPosts
    /\ LET id == NewID(DOMAIN posts) IN
         /\ posts' = Put(posts, id, [enabled |-> enabled])
         /\ requested' = Put(requested, id, enabled)
    /\ last' = [op |-> "CreatePost", err |-> Ok]
    /\ page' = NoPage
    /\ UNCHANGED <<comments, commentsByPost, commentsByParent, scenario, now, pgSide, hubSide>>

\* Store.CreatePost called by a caller that drops what it returns.
CreatePost(enabled) ==
    /\ StorePost(enabled)
    /\ UNCHANGED held

\* ToggleComments that flips the stored flag instead of storing the request.
ToggleComments_Flip(postID, enable) ==
    IF postID \notin DOMAIN posts
    THEN /\ last' = [op |-> "ToggleComments", err |-> ErrNotFound]
         /\ page' = NoPage
         /\ UNCHANGED <<memVars, requested, scenario, held, now, pgSide, hubSide>>
    ELSE /\ posts' = [posts EXCEPT ![postID].enabled = ~posts[postID].enabled]
         /\ requested' = [requested EXCEPT ![postID] = enable]
         /\ scenario' = Step("ToggleComments", postID, enable, Ok)
         /\ last' = [op |-> "ToggleComments", err |-> Ok]
         /\ page' = NoPage
         /\ UNCHANGED <<comments, commentsByPost, commentsByParent, held, now, pgSide, hubSide>>

\* ToggleComments that writes the flag of every stored post.
ToggleComments_All(postID, enable) ==
    IF postID \notin DOMAIN posts
    THEN /\ last' = [op |-> "ToggleComments", err |-> ErrNotFound]
         /\ page' = NoPage
         /\ UNCHANGED <<memVars, requested, scenario, held, now, pgSide, hubSide>>
    ELSE /\ posts' = [q \in DOMAIN posts |-> [enabled |-> enable]]
         /\ requested' = [requested EXCEPT ![postID] = enable]
         /\ scenario' = Step("ToggleComments", postID, enable, Ok)
         /\ last' = [op |-> "ToggleComments", err |-> Ok]
         /\ page' = NoPage
         /\ UNCHANGED <<comments, commentsByPost, commentsByParent, held, now, pgSide, hubSide>>

\* Store.ToggleComments
ToggleComments(postID, enable) ==
    IF postID \notin DOMAIN posts
    THEN /\ last' = [op |-> "ToggleComments", err |-> ErrNotFound]
         /\ page' = NoPage
         /\ UNCHANGED <<memVars, requested, scenario, held, now, pgSide, hubSide>>
    ELSE /\ posts' = [posts EXCEPT ![postID].enabled = enable]
         /\ requested' = [requested EXCEPT ![postID] = enable]
         /\ scenario' = Step("ToggleComments", postID, enable, Ok)
         /\ last' = [op |-> "ToggleComments", err |-> Ok]
         /\ page' = NoPage
         /\ UNCHANGED <<comments, commentsByPost, commentsByParent, held, now, pgSide, hubSide>>

\* The checks with the body validated first, before the post is looked at.
CommentError_BodyFirst(postID, parentID, body) ==
    IF ByteLen(body) > MaxContentLen THEN ErrTooLong
    ELSE IF TrimSpace(body) = <<>> THEN ErrEmpty
    ELSE IF postID \notin DOMAIN posts THEN ErrPostNotFound
    ELSE IF ~posts[postID].enabled THEN ErrCommentsDisabled
    ELSE IF parentID # None /\ parentID \notin DOMAIN comments THEN ErrParentNotFound
    ELSE Ok

\* The checks without the lookup of the parent.
CommentError_NoParent(postID, parentID, body) ==
    IF postID \notin DOMAIN posts THEN ErrPostNotFound
    ELSE IF ~posts[postID].enabled THEN ErrCommentsDisabled
    ELSE IF ByteLen(body) > MaxContentLen THEN ErrTooLong
    ELSE IF TrimSpace(body) = <<>> THEN ErrEmpty
    ELSE Ok

\* The checks without the lookup of the post.
CommentError_AnyPost(postID, parentID, body) ==
    IF postID \in DOMAIN posts /\ ~posts[postID].enabled THEN ErrCommentsDisabled
    ELSE IF ByteLen(body) > MaxContentLen THEN ErrTooLong
    ELSE IF TrimSpace(body) = <<>> THEN ErrEmpty
    ELSE IF parentID # None /\ parentID \notin DOMAIN comments THEN ErrParentNotFound
    ELSE Ok

\* Store.CreateComment, the checks: the error returned, or Ok.
CommentError(postID, parentID, body) ==
    IF postID \notin DOMAIN posts THEN ErrPostNotFound
    ELSE IF ~posts[postID].enabled THEN ErrCommentsDisabled
    ELSE IF ByteLen(body) > MaxContentLen THEN ErrTooLong
    ELSE IF TrimSpace(body) = <<>> THEN ErrEmpty
    ELSE IF parentID # None /\ parentID \notin DOMAIN comments THEN ErrParentNotFound
    ELSE Ok

\* The insert that lists a reply among the roots of its post as well.
InsertComment_Both(id, postID, parentID, createdAt) ==
    /\ comments' = Put(comments, id,
                       [postID |-> postID, parentID |-> parentID, createdAt |-> createdAt])
    /\ commentsByPost' =
           Put(commentsByPost, postID, Append(Lookup(commentsByPost, postID), id))
    /\ IF parentID = None
       THEN UNCHANGED commentsByParent
       ELSE commentsByParent' =
                Put(commentsByParent, parentID, Append(Lookup(commentsByParent, parentID), id))

\* Store.CreateComment, the insert: the comment is stored and its identifier
\* appended to the index of its post (no parent) or of its parent.
InsertComment(id, postID, parentID, createdAt) ==
    /\ comments' = Put(comments, id,
                       [postID |-> postID, parentID |-> parentID, createdAt |-> createdAt])
    /\ IF parentID = None
       THEN /\ commentsByPost' =
                   Put(commentsByPost, postID, Append(Lookup(commentsByPost, postID), id))
            /\ UNCHANGED commentsByParent
       ELSE /\ commentsByParent' =
                   Put(commentsByParent, parentID, Append(Lookup(commentsByParent, parentID), id))
            /\ UNCHANGED commentsByPost

\* The page the client holds once a comment of postID under parentID has
\* been created: a first page of the in-memory store that the comment is a
\* sibling of stays in the client's hands, to be continued by its endCursor.
AfterInsert(pg, postID, parentID) ==
    IF /\ pg.op \in ListingOps /\ pg.store = "memory"
       /\ ~pg.chained /\ ~pg.panic /\ pg.cursor = None /\ pg.endCursor # None
       /\ IF pg.op = "Comments" THEN parentID = None /\ postID = pg.target
                                ELSE parentID = pg.target
    THEN [pg EXCEPT !.inserted = TRUE]
    ELSE NoPage

\* Store.CreateComment: one critical section of s.mu.  The store holds at
\* most cap comments.
CreateCommentUpTo(cap, postID, parentID, body) ==
    LET err == CommentError(postID, parentID, body) IN
    /\ err = Ok => Cardinality(DOMAIN comments) < cap
    /\ last' = [op |-> "CreateComment", err |-> err]
    /\ scenario' = Step("CreateComment", postID,
                        postID \in DOMAIN posts /\ posts[postID].enabled, err)
    /\ page' = IF err = Ok THEN AfterInsert(page, postID, parentID) ELSE NoPage
    /\ UNCHANGED <<posts, requested, now, pgSide>>
    /\ IF err # Ok
       THEN UNCHANGED <<comments, commentsByPost, commentsByParent>>
       ELSE InsertComment(NewID(DOMAIN comments), postID, parentID, now)

\* Store.CreateComment called with nobody subscribed and nothing to notify.
CreateComment(postID, parentID, body) ==
    /\ CreateCommentUpTo(MaxComments, postID, parentID, body)
    /\ UNCHANGED <<held, hubSide>>

\* A client creates a comment with a one-letter body while listings are read.
CreateSibling(postID, parentID) ==
    /\ CreateCommentUpTo(MaxSiblings, postID, parentID, <<Run(97, 1)>>)
    /\ UNCHANGED <<held, hubSide>>

\* The in-memory store under concurrent callers: every method runs under
\* s.mu, so the calls take effect one at a time, in some order.
Next ==
    \/ \E enabled \in BOOLEAN : CreatePost(enabled)
    \/ \E p \in PostArgs, enable \in BOOLEAN : ToggleComments(p, enable)
    \/ \E p \in PostArgs, par \in ParentArgs, b \in CallBodies : CreateComment(p, par, b)

Spec == Init /\ [][Next]_vars

\* ------------------------------------ the objects callers keep
\* What a caller reads through the pointer it keeps.  The store holds the
\* very object: CreatePost and CreateComment put the caller's draft in the
\* map and return it, GetPostByID and ToggleComments return the map's entry.
Deref(ref) ==
    IF ref.kind = "post" THEN posts[ref.id].enabled ELSE comments[ref.id].postID

\* Store.CreatePost, and the caller keeps the post returned.
CreatePostKept(enabled) ==
    /\ StorePost(enabled)
    /\ held' = [kind |-> "post", id |-> NewID(DOMAIN posts), seen |-> enabled]

\* Store.GetPostByID, and the caller keeps the post returned.
GetPostByID(id) ==
    /\ IF id \in DOMAIN posts
       THEN /\ held' = [kind |-> "post", id |-> id, seen |-> posts[id].enabled]
            /\ last' = [op |-> "GetPostByID", err |-> Ok]
       ELSE /\ held' = NoRef
            /\ last' = [op |-> "GetPostByID", err |-> ErrNotFound]
    /\ UNCHANGED <<memVars, requested, scenario, now, pgSide, page, hubSide>>

\* Store.CreateComment, and the caller keeps the comment returned.
CreateCommentKept(postID, parentID) ==
    /\ CreateCommentUpTo(MaxComments, postID, parentID, <<Run(97, 1)>>)
    /\ held' = IF CommentError(postID, parentID, <<Run(97, 1)>>) = Ok
               THEN [kind |-> "comment", id |-> NewID(DOMAIN comments), seen |-> postID]
               ELSE NoRef
    /\ UNCHANGED hubSide

\* The caller assigns CommentsEnabled of the post it keeps.
WritePostDraft(enabled) ==
    /\ held.kind = "post"
    /\ posts' = [posts EXCEPT ![held.id].enabled = enabled]
    /\ held' = [held EXCEPT !.seen = enabled]
    /\ UNCHANGED <<comments, commentsByPost, commentsByParent, requested, scenario, last,
                   now, pgSide, page, hubSide>>

\* The caller assigns PostID of the comment it keeps.
WriteCommentDraft(postID) ==
    /\ held.kind = "comment"
    /\ comments' = [comments EXCEPT ![held.id].postID = postID]
    /\ held' = [held EXCEPT !.seen = postID]
    /\ UNCHANGED <<posts, commentsByPost, commentsByParent, requested, scenario, last,
                   now, pgSide, page, hubSide>>

\* Callers of the in-memory store that keep what the store returns.
NextAlias ==
    \/ \E enabled \in BOOLEAN : CreatePostKept(enabled)
    \/ \E p \in PostArgs : GetPostByID(p)
    \/ \E p \in PostArgs, enable \in BOOLEAN : ToggleComments(p, enable)
    \/ \E p \in PostArgs, par \in ParentArgs : CreateCommentKept(p, par)
    \/ \E enabled \in BOOLEAN : WritePostDraft(enabled)
    \/ \E p \in PostArgs : WriteCommentDraft(p)

SpecAlias == Init /\ [][NextAlias]_vars

\* ---------------------------------------------------- postgres store
\* Every statement reads the rows committed so far (READ COMMITTED, the
\* isolation gorm's Transaction gets when no option asks for another).  A
\* call that needs several statements is several steps, and the other
\* callers' statements may fall between them.
ErrRecordNotFound == "record not found"

\* What the callers other than q are doing is left as it is.
Becomes(q, state) == tx' = [tx EXCEPT ![q] = state]

\* A call returns: atomic says that it did within its first statement.
Returns(op, postID, body, err, atomic) ==
    pgLast' = [op |-> op, postID |-> postID, body |-> body, err |-> err, atomic |-> atomic]

\* CreateComment calls that have passed their checks and not inserted yet.
Inserting == {q \in Callers : tx[q].pc \in {"countParent", "insert"}}

\* postgres Store.CreatePost: one INSERT.
PgCreatePost(enabled) ==
    /\ Cardinality(DOMAIN pgPosts) < MaxPosts
    /\ pgPosts' = Put(pgPosts, NewID(DOMAIN pgPosts), [enabled |-> enabled])
    /\ pgLast' = NoCall
    /\ page' = NoPage
    /\ UNCHANGED <<pgComments, tx, now, memSide, hubSide>>

\* postgres Store.ToggleComments, tx.First: the row is read.
PgToggleFirst(q, postID, enable) ==
    /\ tx[q] = Idle
    /\ page' = NoPage
    /\ UNCHANGED <<pgPosts, pgComments, now, memSide, hubSide>>
    /\ IF postID \notin DOMAIN pgPosts
       THEN /\ Returns("ToggleComments", postID, <<>>, ErrRecordNotFound, TRUE)
            /\ UNCHANGED tx
       ELSE /\ Becomes(q, [pc |-> "save", postID |-> postID, enable |-> enable])
            /\ pgLast' = NoCall

\* postgres Store.ToggleComments, tx.Save and the commit.
PgToggleSave(q) ==
    /\ tx[q].pc = "save"
    /\ pgPosts' = [pgPosts EXCEPT ![tx[q].postID].enabled = tx[q].enable]
    /\ Becomes(q, Idle)
    /\ Returns("ToggleComments", tx[q].postID, <<>>, Ok, FALSE)
    /\ page' = NoPage
    /\ UNCHANGED <<pgComments, now, memSide, hubSide>>

\* postgres Store.CreateComment up to the end of its first statement: the
\* body is validated, then the transaction selects comments_enabled of the post.
PgCommentError(postID, body) ==
    IF ByteLen(body) > MaxContentLen THEN ErrTooLong
    ELSE IF TrimSpace(body) = <<>> THEN ErrEmpty
    ELSE IF postID \notin DOMAIN pgPosts THEN ErrPostNotFound
    ELSE IF ~pgPosts[postID].enabled THEN ErrCommentsDisabled
    ELSE Ok

PgCreateCommentSelect(q, postID, parentID, body) ==
    LET err == PgCommentError(postID, body) IN
    /\ tx[q] = Idle
    /\ page' = NoPage
    /\ UNCHANGED <<pgPosts, pgComments, now, memSide, hubSide>>
    /\ IF err # Ok
       THEN /\ Returns("CreateComment", postID, body, err, TRUE)
            /\ UNCHANGED tx
       ELSE /\ Cardinality(DOMAIN pgComments) + Cardinality(Inserting) < MaxRows
            /\ Becomes(q, [pc |-> IF parentID = None THEN "insert" ELSE "countParent",
                           postID |-> postID, parentID |-> parentID, body |-> body])
            /\ pgLast' = NoCall

\* postgres Store.CreateComment, the count of the rows with the parent's id.
PgCreateCommentCount(q) ==
    /\ tx[q].pc = "countParent"
    /\ page' = NoPage
    /\ UNCHANGED <<pgPosts, pgComments, now, memSide, hubSide>>
    /\ IF tx[q].parentID \notin DOMAIN pgComments
       THEN /\ Returns("CreateComment", tx[q].postID, tx[q].body, ErrParentNotFound, FALSE)
            /\ Becomes(q, Idle)
       ELSE /\ Becomes(q, [tx[q] EXCEPT !.pc = "insert"])
            /\ pgLast' = NoCall

\* postgres Store.CreateComment, tx.Create and the commit: gorm fills
\* CreatedAt with the time of the call, the database the id.
PgCreateCommentInsert(q) ==
    /\ tx[q].pc = "insert"
    /\ pgComments' = Put(pgComments, NewID(DOMAIN pgComments),
                         [postID |-> tx[q].postID, parentID |-> tx[q].parentID,
                          createdAt |-> now])
    /\ Becomes(q, Idle)
    /\ Returns("CreateComment", tx[q].postID, tx[q].body, Ok, FALSE)
    /\ page' = NoPage
    /\ UNCHANGED <<pgPosts, now, memSide, hubSide>>

\* The postgres store under concurrent callers.
NextPg ==
    \/ \E enabled \in BOOLEAN : PgCreatePost(enabled)
    \/ \E q \in Callers, p \in PostArgs, enable \in BOOLEAN : PgToggleFirst(q, p, enable)
    \/ \E q \in Callers : PgToggleSave(q)
    \/ \E q \in Callers, p \in PostArgs, par \in ParentArgsPg, b \in CallBodies :
           PgCreateCommentSelect(q, p, par, b)
    \/ \E q \in Callers : PgCreateCommentCount(q)
    \/ \E q \in Callers : PgCreateCommentInsert(q)

SpecPg == Init /\ [][NextPg]_vars

\* ------------------------------------------------- listing resolvers
\* An optional limit argument (*int): <<>> is nil, <<n>> points to n.
LimitArgs == {<<>>} \cup {<<n>> : n \in 0..MaxLimit}

\* The first n elements of a sequence (all of it when it is shorter).
Take(seq, n) == SubSeq(seq, 1, IF n < Len(seq) THEN n ELSE Len(seq))

\* `l := default; if limit != nil { l = *limit }`
LimitOr(limit, default) == IF limit = <<>> THEN default ELSE limit[1]

\* postResolver.Comments and commentResolver.Children once the store has
\* answered `rows` to Limit l+1: hasNextPage, the cut to l, the edges and
\* endCursor.  comments[:l] with a negative l panics.
Connection(rows, l) ==
    LET hasNextPage == Len(rows) > l IN
    IF hasNextPage /\ l < 0
    THEN [panic |-> TRUE, items |-> <<>>, hasNextPage |-> FALSE, endCursor |-> None]
    ELSE LET items == IF hasNextPage THEN SubSeq(rows, 1, l) ELSE rows IN
         [panic |-> FALSE, items |-> items, hasNextPage |-> hasNextPage,
          endCursor |-> IF Len(items) > 0 THEN items[Len(items)] ELSE None]

\* The page a resolver returned: the request and the connection.
Page(store, op, target, limit, cursor, conn, first, chained) ==
    [store |-> store, op |-> op, target |-> target, limit |-> limit, cursor |-> cursor,
     panic |-> conn.panic, items |-> conn.items, hasNextPage |-> conn.hasNextPage,
     endCursor |-> conn.endCursor, first |-> first, chained |-> chained,
     inserted |-> FALSE]

\* ------------------------------------------- in-memory store, reads
RECURSIVE SortByCreatedAt(_)
\* sort.Slice(allComments, CreatedAt.Before): for the at most 12 elements of
\* the model's slices Go sorts by insertion, moving each element left past
\* the elements created strictly after it.
SortByCreatedAt(ids) ==
    IF ids = <<>> THEN <<>>
    ELSE LET sorted == SortByCreatedAt(SubSeq(ids, 1, Len(ids) - 1))
             x == ids[Len(ids)]
             keep == {i \in DOMAIN sorted :
                         comments[sorted[i]].createdAt <= comments[x].createdAt}
             k == Cardinality(keep)
         IN SubSeq(sorted, 1, k) \o <<x>> \o SubSeq(sorted, k + 1, Len(sorted))

\* paginateComments that starts at the cursor itself, not after it.
paginateComments_AtCursor(ids, limit, cursor) ==
    LET allComments == SortByCreatedAt(SelectSeq(ids, LAMBDA id : id \in DOMAIN comments))
        found == {i \in DOMAIN allComments : allComments[i] = cursor}
        startIndex == IF cursor # None /\ found # {}
                      THEN (CHOOSE i \in found : \A j \in found : i <= j) - 1
                      ELSE 0
        endIndex == IF startIndex + limit > Len(allComments) THEN Len(allComments)
                    ELSE startIndex + limit
    IN IF startIndex >= Len(allComments) THEN [panic |-> FALSE, rows |-> <<>>]
       ELSE IF endIndex < startIndex THEN [panic |-> TRUE, rows |-> <<>>]
       ELSE [panic |-> FALSE, rows |-> SubSeq(allComments, startIndex + 1, endIndex)]

\* Store.paginateComments: [panic, rows]; a slice expression whose end lies
\* before its start panics.
paginateComments(ids, limit, cursor) ==
    LET allComments == SortByCreatedAt(SelectSeq(ids, LAMBDA id : id \in DOMAIN comments))
        found == {i \in DOMAIN allComments : allComments[i] = cursor}
        startIndex == IF cursor # None /\ found # {}
                      THEN CHOOSE i \in found : \A j \in found : i <= j
                      ELSE 0
        endIndex == IF startIndex + limit > Len(allComments) THEN Len(allComments)
                    ELSE startIndex + limit
    IN IF startIndex >= Len(allComments) THEN [panic |-> FALSE, rows |-> <<>>]
       ELSE IF endIndex < startIndex THEN [panic |-> TRUE, rows |-> <<>>]
       ELSE [panic |-> FALSE, rows |-> SubSeq(allComments, startIndex + 1, endIndex)]

\* Store.GetCommentsByPostID
GetCommentsByPostID(postID, limit, cursor) ==
    IF postID \notin DOMAIN commentsByPost THEN [panic |-> FALSE, rows |-> <<>>]
    ELSE paginateComments(commentsByPost[postID], limit, cursor)

\* Store.GetCommentsByParentID
GetCommentsByParentID(parentID, limit, cursor) ==
    IF parentID \notin DOMAIN commentsByParent THEN [panic |-> FALSE, rows |-> <<>>]
    ELSE paginateComments(commentsByParent[parentID], limit, cursor)

\* The page one listing request returns.
MemPage(op, target, limit, cursor, first, chained) ==
    LET l == LimitOr(limit, IF op = "Comments" THEN DefaultCommentsLimit
                                             ELSE DefaultChildrenLimit)
        answer == IF op = "Comments" THEN GetCommentsByPostID(target, l + 1, cursor)
                                     ELSE GetCommentsByParentID(target, l + 1, cursor)
        conn == IF answer.panic
                THEN [panic |-> TRUE, items |-> <<>>, hasNextPage |-> FALSE, endCursor |-> None]
                ELSE Connection(answer.rows, l)
    IN Page("memory", op, target, limit, cursor, conn, first, chained)

\* postResolver.Comments over the in-memory store: obj is a stored post.
Comments(postID, limit, cursor) ==
    /\ postID \in DOMAIN posts
    /\ page' = MemPage("Comments", postID, limit, cursor, <<>>, FALSE)
    /\ UNCHANGED <<memSide, now, pgSide, hubSide>>

\* commentResolver.Children over the in-memory store: obj is a stored comment.
Children(parentID, limit, cursor) ==
    /\ parentID \in DOMAIN comments
    /\ page' = MemPage("Children", parentID, limit, cursor, <<>>, FALSE)
    /\ UNCHANGED <<memSide, now, pgSide, hubSide>>

\* The client asks for the page after a first page: the same listing with
\* the first page's endCursor as cursor.
NextPage(limit) ==
    /\ page.op \in ListingOps /\ page.store = "memory"
    /\ ~page.chained /\ ~page.panic /\ page.cursor = None /\ page.endCursor # None
    /\ page' = [MemPage(page.op, page.target, limit, page.endCursor, page.items, TRUE)
                    EXCEPT !.inserted = page.inserted]
    /\ UNCHANGED <<memSide, now, pgSide, hubSide>>

\* The in-memory store and the listings of the resolvers.
NextList ==
    \/ CreatePost(TRUE)
    \/ \E p \in PostArgs, par \in ParentArgs : CreateComment(p, par, <<Run(97, 1)>>)
    \/ Tick
    \/ \E p \in PostArgs, limit \in LimitArgs \cup {<<-1>>}, cursor \in ParentArgs :
           Comments(p, limit, cursor)
    \/ \E c \in CommentArgs, limit \in LimitArgs \cup {<<-1>>}, cursor \in ParentArgs :
           Children(c, limit, cursor)
    \/ \E limit \in LimitArgs \cup {<<-1>>} : NextPage(limit)

SpecList == Init /\ [][NextList]_vars

\* Clients that walk the listings of the in-memory store page by page while
\* other clients create root comments on the stored posts and replies to the
\* stored comments, all within one reading of the clock: the comments share
\* their creation time, so the sort of paginateComments decides nothing and
\* the order of the index is the order the pages walk.
NextWalk ==
    \/ CreatePost(TRUE)
    \/ \E p \in DOMAIN posts, par \in {None} \cup DOMAIN comments : CreateSibling(p, par)
    \/ \E p \in PostArgs, limit \in LimitArgs : Comments(p, limit, None)
    \/ \E c \in 1..MaxSiblings, limit \in LimitArgs : Children(c, limit, None)
    \/ \E limit \in LimitArgs : NextPage(limit)

SpecWalk == Init /\ [][NextWalk]_vars

\* ----------------------------------------------- batches of children
\* The elements of a sequence.
Range(seq) == {seq[i] : i \in DOMAIN seq}

\* The lists of distinct parent identifiers a batch may ask for, each set of
\* identifiers in one order: the stores build a map from the list, its order
\* is not read.
KeyLists(args) ==
    UNION {{k \in [1..n -> args] : \A i, j \in 1..n : i < j => k[i] < k[j]} : n \in 0..MaxKeys}

\* The batch with the children of each parent latest first.
GetCommentsByParentIDs_LatestFirst(parentIDs) ==
    [pID \in Range(parentIDs) |->
        LET children == SortByCreatedAt(SelectSeq(Lookup(commentsByParent, pID),
                                                 LAMBDA cID : cID \in DOMAIN comments))
        IN [i \in DOMAIN children |-> children[Len(children) + 1 - i]]]

\* inmemory Store.GetCommentsByParentIDs: every asked parent is a key of the
\* result, mapped to its stored children sorted by creation time.
GetCommentsByParentIDs(parentIDs) ==
    [pID \in Range(parentIDs) |->
        SortByCreatedAt(SelectSeq(Lookup(commentsByParent, pID),
                                  LAMBDA cID : cID \in DOMAIN comments))]

\* The answer of one batch.
BatchPage(store, parentIDs, result) ==
    [op |-> "Batch", store |-> store, keys |-> parentIDs, result |-> result]

\* The batch function of the dataloader over the in-memory store.
Batch(parentIDs) ==
    /\ page' = BatchPage("memory", parentIDs, GetCommentsByParentIDs(parentIDs))
    /\ UNCHANGED <<memSide, now, pgSide, hubSide>>

\* The in-memory store and the batches of the dataloader.  Root comments are
\* created on the stored posts, replies on the post of their parent.
NextBatch ==
    \/ CreatePost(TRUE)
    \/ \E p \in DOMAIN posts, par \in {None} \cup DOMAIN comments :
           /\ par # None => comments[par].postID = p
           /\ CreateSibling(p, par)
    \/ Tick
    \/ \E parentIDs \in KeyLists(1..(MaxSiblings + 1)) : Batch(parentIDs)

SpecBatch == Init /\ [][NextBatch]_vars

\* --------------------------------------------- postgres store, reads
\* The orders ORDER BY created_at ASC may give the rows of S: rows with the
\* same created_at come in any order.
TimeOrders(S, rows) ==
    {o \in [1..Cardinality(S) -> S] :
        /\ \A i, j \in DOMAIN o : i < j => o[i] # o[j]
        /\ \A i, j \in DOMAIN o : i < j => rows[o[i]].createdAt <= rows[o[j]].createdAt}

\* WHERE post_id = ? AND parent_id IS NULL
PgRoots(postID) ==
    {c \in DOMAIN pgComments :
        pgComments[c].postID = postID /\ pgComments[c].parentID = None}

\* WHERE parent_id = ?
PgChildrenOf(parentID) == {c \in DOMAIN pgComments : pgComments[c].parentID = parentID}

\* The cursor clause: when a row with the cursor's id exists, whatever its
\* post and parent, WHERE created_at > that row's created_at is added.
PgAfterCursor(match, cursor) ==
    IF cursor # None /\ cursor \in DOMAIN pgComments
    THEN {c \in match : pgComments[c].createdAt > pgComments[cursor].createdAt}
    ELSE match

\* ORDER BY created_at ASC LIMIT limit: the answers the query may give.
PgSelect(match, limit) == {Take(o, limit) : o \in TimeOrders(match, pgComments)}

\* postgres Store.GetCommentsByPostID
PgGetCommentsByPostID(postID, limit, cursor) ==
    PgSelect(PgAfterCursor(PgRoots(postID), cursor), limit)

\* postgres Store.GetCommentsByParentID
PgGetCommentsByParentID(parentID, limit, cursor) ==
    PgSelect(PgAfterCursor(PgChildrenOf(parentID), cursor), limit)

\* No call of the postgres store is in flight.
QuietPg == \A q \in Callers : tx[q] = Idle

\* What one listing request may return, as pages.
PgPages(op, target, limit, cursor, first, chained) ==
    LET l == LimitOr(limit, IF op = "Comments" THEN DefaultCommentsLimit
                                             ELSE DefaultChildrenLimit)
        answers == IF op = "Comments" THEN PgGetCommentsByPostID(target, l + 1, cursor)
                                      ELSE PgGetCommentsByParentID(target, l + 1, cursor)
    IN {Page("postgres", op, target, limit, cursor, Connection(rows, l), first, chained) :
            rows \in answers}

\* postResolver.Comments over the postgres store: obj is a stored post.
PgComments(postID, limit, cursor) ==
    /\ QuietPg
    /\ postID \in DOMAIN pgPosts
    /\ page' \in PgPages("Comments", postID, limit, cursor, <<>>, FALSE)
    /\ pgLast' = NoCall
    /\ UNCHANGED <<pgPosts, pgComments, tx, now, memSide, hubSide>>

\* commentResolver.Children over the postgres store: obj is a stored comment.
PgChildren(parentID, limit, cursor) ==
    /\ QuietPg
    /\ parentID \in DOMAIN pgComments
    /\ page' \in PgPages("Children", parentID, limit, cursor, <<>>, FALSE)
    /\ pgLast' = NoCall
    /\ UNCHANGED <<pgPosts, pgComments, tx, now, memSide, hubSide>>

\* The client asks for the page after a first page: the same listing with
\* the first page's endCursor as cursor.
PgNextPage(limit) ==
    /\ QuietPg
    /\ page.op \in ListingOps /\ page.store = "postgres"
    /\ ~page.chained /\ ~page.panic /\ page.cursor = None /\ page.endCursor # None
    /\ page' \in PgPages(page.op, page.target, limit, page.endCursor, page.items, TRUE)
    /\ pgLast' = NoCall
    /\ UNCHANGED <<pgPosts, pgComments, tx, now, memSide, hubSide>>

\* The postgres store with one caller, whose calls follow one another, and
\* the listings of the resolvers.  mutationResolver.CreatePost creates every
\* post with comments enabled.
NextPgList ==
    \/ PgCreatePost(TRUE)
    \/ \E p \in PostArgs, par \in ParentArgsPg : PgCreateCommentSelect(1, p, par, <<Run(97, 1)>>)
    \/ PgCreateCommentCount(1)
    \/ PgCreateCommentInsert(1)
    \/ Tick
    \/ \E p \in PostArgs, limit \in LimitArgs, cursor \in ParentArgsPg : PgComments(p, limit, cursor)
    \/ \E c \in RowArgs, limit \in LimitArgs, cursor \in ParentArgsPg : PgChildren(c, limit, cursor)
    \/ \E limit \in LimitArgs : PgNextPage(limit)

SpecPgList == Init /\ [][NextPgList]_vars

\* postgres Store.GetCommentsByParentIDs: the rows WHERE parent_id IN ?
\* ORDER BY parent_id, created_at, grouped by parent; only a parent with a
\* row among them becomes a key.
PgGetCommentsByParentIDs(parentIDs) ==
    LET found == {pID \in Range(parentIDs) : PgChildrenOf(pID) # {}} IN
    {result \in [found -> UNION {TimeOrders(PgChildrenOf(pID), pgComments) : pID \in found}] :
        \A pID \in found : result[pID] \in TimeOrders(PgChildrenOf(pID), pgComments)}

\* The batch function of the dataloader over the postgres store.
PgBatch(parentIDs) ==
    /\ QuietPg
    /\ \E result \in PgGetCommentsByParentIDs(parentIDs) :
           page' = BatchPage("postgres", parentIDs, result)
    /\ pgLast' = NoCall
    /\ UNCHANGED <<pgPosts, pgComments, tx, now, memSide, hubSide>>

\* The postgres store with one caller and the batches of the dataloader.
NextPgBatch ==
    \/ PgCreatePost(TRUE)
    \/ \E p \in PostArgs, par \in ParentArgsPg : PgCreateCommentSelect(1, p, par, <<Run(97, 1)>>)
    \/ PgCreateCommentCount(1)
    \/ PgCreateCommentInsert(1)
    \/ Tick
    \/ \E parentIDs \in KeyLists(RowArgs) : PgBatch(parentIDs)

SpecPgBatch == Init /\ [][NextPgBatch]_vars

\* ------------------------------------------------ the batch function
\* The error of a query that the database did not answer.
ErrDb == "database error"

\* The distinct parent identifiers one coalescing window of a request's
\* loader may hand to the batch function, in the order the loads arrived
\* (the loader caches by key, so a key is handed over once).
KeyOrders(args) ==
    UNION {{k \in [1..n -> args] : \A i, j \in 1..n : i # j => k[i] # k[j]} : n \in 1..MaxKeys}

\* batchFn that reports the error to the first key only.
batchFn_FirstOnly(parentIDs, commentsMap, err) ==
    [op |-> "Loader", keys |-> parentIDs, asked |-> <<parentIDs>>, err |-> err,
     results |-> [i \in DOMAIN parentIDs |->
                     IF err # Ok /\ i = 1 THEN [Data |-> <<>>, Error |-> err]
                     ELSE [Data |-> <<Lookup(commentsMap, parentIDs[i])>>, Error |-> Ok]]]

\* batchFn that hands the lists out in the order of the identifiers.
batchFn_ByIdentifier(parentIDs, commentsMap, err) ==
    LET rank(i) == Cardinality({j \in DOMAIN parentIDs : parentIDs[j] <= parentIDs[i]})
        sorted == [r \in DOMAIN parentIDs |->
                      parentIDs[CHOOSE i \in DOMAIN parentIDs : rank(i) = r]]
    IN [op |-> "Loader", keys |-> parentIDs, asked |-> <<parentIDs>>, err |-> err,
        results |-> [i \in DOMAIN parentIDs |->
                        IF err # Ok THEN [Data |-> <<>>, Error |-> err]
                        ELSE [Data |-> <<Lookup(commentsMap, sorted[i])>>, Error |-> Ok]]]

\* batchFn of Middleware, given what the one call of
\* store.GetCommentsByParentIDs(parentIDs) returned: `asked` lists the
\* arguments of the store calls made, `results` is the slice returned, one
\* Result per key.  Data is <<>> for nil and <<list>> for a list; a key
\* that the map lacks reads as the nil list.
batchFn(parentIDs, commentsMap, err) ==
    [op |-> "Loader", keys |-> parentIDs, asked |-> <<parentIDs>>, err |-> err,
     results |-> [i \in DOMAIN parentIDs |->
                     IF err # Ok THEN [Data |-> <<>>, Error |-> err]
                     ELSE [Data |-> <<Lookup(commentsMap, parentIDs[i])>>, Error |-> Ok]]]

\* One coalescing window of a request's loader over the postgres store
\* closes: the batch function is run on its keys.  The query may fail.
LoaderBatch(parentIDs, failed) ==
    /\ QuietPg
    /\ IF failed
       THEN page' = batchFn(parentIDs, <<>>, ErrDb)
       ELSE \E result \in PgGetCommentsByParentIDs(parentIDs) :
                page' = batchFn(parentIDs, result, Ok)
    /\ pgLast' = NoCall
    /\ UNCHANGED <<pgPosts, pgComments, tx, now, memSide, hubSide>>

\* The postgres store with one post and one writer, who comments on the
\* post and replies to stored comments until there are as many comments as a
\* batch has keys, and requests whose loaders batch.
NextLoader ==
    \/ pgPosts = <<>> /\ PgCreatePost(TRUE)
    \/ \E par \in {None} \cup DOMAIN pgComments :
           /\ Cardinality(DOMAIN pgComments) < MaxKeys
           /\ PgCreateCommentSelect(1, 1, par, <<Run(97, 1)>>)
    \/ PgCreateCommentCount(1)
    \/ PgCreateCommentInsert(1)
    \/ Tick
    \/ \E parentIDs \in KeyOrders(RowArgs), failed \in BOOLEAN : LoaderBatch(parentIDs, failed)

SpecLoader == Init /\ [][NextLoader]_vars

\* ------------------------------------------ subscriptions and publishing
\* `make(chan *domain.Comment, 1)`: the buffer of a subscription's channel.
ChanCap == 1

\* What a caller may name as a subscription.
SubArgs == 1..(MaxSubs + 1)

\* The subscriptions the registry holds.
Registered == UNION {subs[p] : p \in DOMAIN subs}

\* r.Observer.subs[postID]: the inner map of a post, nil when it has none.
InnerMap(postID) == IF postID \in DOMAIN subs THEN subs[postID] ELSE {}

\* A function without one of its keys.
Without(f, k) == [x \in DOMAIN f \ {k} |-> f[x]]

\* The cleanup of CommentAdded applied to a registry: the subscription is
\* deleted from the inner map of its post, and an inner map left empty is
\* deleted from the registry.
Remove_KeepEmpty(registry, postID, subID) ==
    IF postID \in DOMAIN registry
    THEN [registry EXCEPT ![postID] = @ \ {subID}]
    ELSE registry

Remove(registry, postID, subID) ==
    IF postID \in DOMAIN registry
    THEN IF registry[postID] \ {subID} = {}
         THEN Without(registry, postID)
         ELSE [registry EXCEPT ![postID] = @ \ {subID}]
    ELSE registry

\* The entries of the inner map a publishing goroutine ranges over: the map
\* of its post, or nothing once that map was emptied and dropped from the
\* registry (a later subscription gets a new map).
Entries(g) == IF g.detached THEN {} ELSE subs[g.postID]

\* The goroutines that range over the inner map of postID.  They hold no
\* lock: a write to that map under Observer.mu runs at the same time as
\* their iteration.
Iterating(postID) == {g \in pubs : g.postID = postID /\ ~g.detached}

\* The running goroutines once the inner map of postID has got a new entry
\* (which a range in progress may produce or skip).
Joined(postID, subID) ==
    {IF g \in Iterating(postID) THEN [g EXCEPT !.late = @ \cup {subID}] ELSE g : g \in pubs}

\* The running goroutines once the inner map of postID was dropped from the
\* registry.
Dropped(postID) ==
    {IF g \in Iterating(postID) THEN [g EXCEPT !.detached = TRUE] ELSE g : g \in pubs}

\* The comments whose creation is over: those stored, but for the one of a
\* mutation that has not passed its notification yet.  Identifiers are
\* given in order, so this is also the latest such identifier.
Published ==
    IF mut # Idle /\ mut.err = Ok
    THEN Cardinality(DOMAIN comments) - 1
    ELSE Cardinality(DOMAIN comments)

\* CommentAdded that registers without looking the post up.
CommentAdded_Unchecked(postID, fatal) ==
    /\ ~crashed
    /\ Cardinality(DOMAIN chans) < MaxSubs
    /\ fatal => Iterating(postID) # {}
    /\ LET subID == NewID(DOMAIN chans) IN
           /\ subs' = Put(subs, postID, InnerMap(postID) \cup {subID})
           /\ chans' = Put(chans, subID, <<>>)
           /\ ctx' = Put(ctx, subID, [postID |-> postID, state |-> "live",
                                            since |-> Published, got |-> None])
           /\ pubs' = Joined(postID, subID)
    /\ crashed' = fatal
    /\ last' = [op |-> "CommentAdded", err |-> Ok]
    /\ UNCHANGED <<memVars, requested, scenario, held, now, pgSide, page, mut>>

\* subscriptionResolver.CommentAdded: the post is looked up, then the new
\* channel is registered under Observer.mu.  With fatal, the runtime finds
\* a goroutine ranging over the inner map while it is written and ends the
\* process ("concurrent map iteration and map write").
CommentAdded(postID, fatal) ==
    /\ ~crashed
    /\ IF postID \notin DOMAIN posts
       THEN /\ ~fatal
            /\ last' = [op |-> "CommentAdded", err |-> ErrPostNotFound]
            /\ UNCHANGED hubSide
       ELSE /\ Cardinality(DOMAIN chans) < MaxSubs
            /\ fatal => Iterating(postID) # {}
            /\ LET subID == NewID(DOMAIN chans) IN
                   /\ subs' = Put(subs, postID, InnerMap(postID) \cup {subID})
                   /\ chans' = Put(chans, subID, <<>>)
                   /\ ctx' = Put(ctx, subID, [postID |-> postID, state |-> "live",
                                            since |-> Published, got |-> None])
                   /\ pubs' = Joined(postID, subID)
            /\ crashed' = fatal
            /\ last' = [op |-> "CommentAdded", err |-> Ok]
            /\ UNCHANGED mut
    /\ UNCHANGED <<memVars, requested, scenario, held, now, pgSide, page>>

\* The request context of a subscription is cancelled (the client is gone).
Cancel(subID) ==
    /\ ~crashed
    /\ subID \in DOMAIN ctx /\ ctx[subID].state = "live"
    /\ ctx' = [ctx EXCEPT ![subID].state = "cancelled"]
    /\ UNCHANGED <<memSide, now, pgSide, page, subs, chans, pubs, mut, crashed>>

\* A cleanup that ends without touching the registry.
Cleanup_Skip(subID, fatal) ==
    /\ ~crashed
    /\ ~fatal
    /\ subID \in DOMAIN ctx /\ ctx[subID].state = "cancelled"
    /\ ctx' = [ctx EXCEPT ![subID].state = "done"]
    /\ UNCHANGED <<memSide, now, pgSide, page, subs, chans, pubs, mut, crashed>>

\* The cleanup goroutine of CommentAdded, after <-ctx.Done(): one critical
\* section of Observer.mu.
Cleanup(subID, fatal) ==
    /\ ~crashed
    /\ subID \in DOMAIN ctx /\ ctx[subID].state = "cancelled"
    /\ LET postID == ctx[subID].postID IN
           /\ fatal => Iterating(postID) # {}
           /\ subs' = Remove(subs, postID, subID)
           /\ pubs' = IF postID \in DOMAIN subs /\ postID \notin DOMAIN Remove(subs, postID, subID)
                      THEN Dropped(postID)
                      ELSE pubs
    /\ ctx' = [ctx EXCEPT ![subID].state = "done"]
    /\ crashed' = fatal
    /\ UNCHANGED <<memSide, now, pgSide, page, chans, mut>>

\* The client of a subscription reads the next comment from its channel.
Receive(subID) ==
    /\ ~crashed
    /\ subID \in DOMAIN chans /\ chans[subID] # <<>>
    /\ ctx[subID].state = "live"
    /\ chans' = [chans EXCEPT ![subID] = Tail(@)]
    /\ ctx' = [ctx EXCEPT ![subID].got = Head(chans[subID])]
    /\ UNCHANGED <<memSide, now, pgSide, page, subs, pubs, mut, crashed>>

\* mutationResolver.CreateComment, first half: r.Storage.CreateComment.
MutationCreateComment(postID, parentID, body) ==
    /\ ~crashed
    /\ mut = Idle
    /\ CreateCommentUpTo(MaxComments, postID, parentID, body)
    /\ mut' = [pc |-> "notify", postID |-> postID,
               err |-> CommentError(postID, parentID, body),
               id |-> NewID(DOMAIN comments)]
    /\ UNCHANGED <<held, subs, chans, ctx, pubs, crashed>>

\* mutationResolver.CreateComment, second half: an error of the store is
\* returned as it is; otherwise, under Observer.mu.RLock, a goroutine is
\* started with the inner map of the post if there is one, and the comment
\* is returned.
MutationNotify ==
    /\ ~crashed
    /\ mut # Idle
    /\ pubs' = IF mut.err = Ok /\ mut.postID \in DOMAIN subs
               THEN pubs \cup {[c |-> mut.id, postID |-> mut.postID, seen |-> {},
                                late |-> {}, detached |-> FALSE]}
               ELSE pubs
    /\ mut' = Idle
    /\ UNCHANGED <<memSide, now, pgSide, page, subs, chans, ctx, crashed>>

\* One turn of the goroutine's range over the inner map:
\* `select { case ch <- c: default: }`.
PublishSend(g, subID) ==
    /\ ~crashed
    /\ g \in pubs
    /\ subID \in Entries(g) \ g.seen
    /\ chans' = IF Len(chans[subID]) < ChanCap
                THEN [chans EXCEPT ![subID] = Append(@, g.c)]
                ELSE chans
    /\ pubs' = (pubs \ {g}) \cup {[g EXCEPT !.seen = @ \cup {subID}]}
    /\ UNCHANGED <<memSide, now, pgSide, page, subs, ctx, mut, crashed>>

\* The range is over: every entry had its turn, but for entries made while
\* the goroutine was running, which a range may skip.
PublishEnd(g) ==
    /\ ~crashed
    /\ g \in pubs
    /\ Entries(g) \ g.seen \subseteq g.late
    /\ pubs' = pubs \ {g}
    /\ UNCHANGED <<memSide, now, pgSide, page, subs, chans, ctx, mut, crashed>>

\* mutationResolver.CreatePost: posts are created with comments enabled.
MutationCreatePost ==
    /\ ~crashed
    /\ CreatePost(TRUE)

\* The resolvers over the in-memory store with the observer: clients create
\* posts and root comments, subscribe, read and go away.
NextHub ==
    \/ MutationCreatePost
    \/ \E p \in PostArgs : MutationCreateComment(p, None, <<Run(97, 1)>>)
    \/ MutationNotify
    \/ \E p \in PostArgs, fatal \in BOOLEAN : CommentAdded(p, fatal)
    \/ \E s \in SubArgs : Cancel(s)
    \/ \E s \in SubArgs, fatal \in BOOLEAN : Cleanup(s, fatal)
    \/ \E s \in SubArgs : Receive(s)
    \/ \E g \in pubs, s \in SubArgs : PublishSend(g, s)
    \/ \E g \in pubs : PublishEnd(g)

SpecHub == Init /\ [][NextHub]_vars

\* The registry under subscribes and teardowns alone: no comment is
\* created, so no goroutine ranges over an inner map.
NextSubs ==
    \/ MutationCreatePost
    \/ \E p \in PostArgs, fatal \in BOOLEAN : CommentAdded(p, fatal)
    \/ \E s \in SubArgs : Cancel(s)
    \/ \E s \in SubArgs, fatal \in BOOLEAN : Cleanup(s, fatal)

SpecSubs == Init /\ [][NextSubs]_vars

\* The cleanup goroutine of every subscription is scheduled in the end.
FairSpecSubs ==
    /\ Init
    /\ [][NextSubs]_vars
    /\ \A s \in SubArgs : WF_vars(\E fatal \in BOOLEAN : Cleanup(s, fatal))

\* ===================================================================
\* Claims
\* ===================================================================
\* A body the spec calls valid: non-blank after trimming, at most 2000 long
\* as the code measures it.
ValidBody(b) == TrimSpace(b) # <<>> /\ ByteLen(b) <= MaxContentLen

EnabledPosts == {p \in DOMAIN posts : posts[p].enabled}

DisabledPosts == {p \in DOMAIN posts : ~posts[p].enabled}

\* A step that is a CreateComment call of the in-memory store returning err.
ReturnsFromCreate(err) == last'.op = "CreateComment" /\ last'.err = err

\* C3: in every state where post P exists with comments disabled,
\* CreateComment against P fails with CommentsDisabled whatever its body and
\* parent, and a call that fails so leaves the stored comments and both
\* hierarchy indexes as they were.
C3_DisabledAlwaysRefused ==
    /\ [](\A p \in DisabledPosts, par \in ParentArgs, b \in Bodies :
              CommentError(p, par, b) = ErrCommentsDisabled)
    /\ [][ReturnsFromCreate(ErrCommentsDisabled) => UNCHANGED memVars]_vars

C3_Witness ==
    /\ last = [op |-> "CreateComment", err |-> ErrCommentsDisabled]
    /\ DisabledPosts # {}
    /\ DOMAIN comments # {}

\* C4: on an existing post with comments enabled, CreateComment fails with
\* InvalidBody exactly when the body trims to the empty string or is longer
\* than 2000 characters: such a body is always refused, and a non-blank body
\* of at most 2000 characters never is.
C4_InvalidBodyIffBlankOrTooManyChars ==
    \A p \in EnabledPosts, par \in ParentArgs, b \in Bodies :
        (CommentError(p, par, b) \in InvalidBody)
            <=> (TrimSpace(b) = <<>> \/ CharCount(b) > MaxContentLen)

\* C5: on an existing post with comments enabled and with a valid body, a
\* parent identifier that names no stored comment makes CreateComment fail
\* with ParentNotFound, and a call that fails so stores no comment and
\* appends to no index.
C5_UnknownParentRefused ==
    /\ [](\A p \in EnabledPosts, b \in Bodies, par \in CommentArgs \ DOMAIN comments :
              ValidBody(b) => CommentError(p, par, b) = ErrParentNotFound)
    /\ [][ReturnsFromCreate(ErrParentNotFound) => UNCHANGED memVars]_vars

C5_Witness ==
    /\ last = [op |-> "CreateComment", err |-> ErrParentNotFound]
    /\ DOMAIN comments # {}

\* C6: after any sequence of ToggleComments calls on an existing post P, a
\* CreateComment on P with a valid body and no parent succeeds iff the value
\* the most recent toggle asked for (the creation value if there was none)
\* is true, and a call that succeeds stores one more comment.
C6_CreateFollowsLatestToggle ==
    /\ [](\A p \in DOMAIN posts, b \in Bodies :
              ValidBody(b) => ((CommentError(p, None, b) = Ok) <=> requested[p]))
    /\ [][ReturnsFromCreate(Ok) =>
              Cardinality(DOMAIN comments') = Cardinality(DOMAIN comments) + 1]_vars

\* Off, refused, on again, accepted: the spec's scenario has run to its end.
C6_Witness ==
    /\ scenario = Len(ScenarioSteps)
    /\ last = [op |-> "CreateComment", err |-> Ok]


\* The error the contract's order of checks asks for (post exists, comments
\* enabled, body valid, parent exists), given what each check finds.
FirstViolated(postFound, enabled, body, parentFound, err) ==
    IF ~postFound THEN err = ErrPostNotFound
    ELSE IF ~enabled THEN err = ErrCommentsDisabled
    ELSE IF ~ValidBody(body) THEN err \in InvalidBody
    ELSE IF ~parentFound THEN err = ErrParentNotFound
    ELSE err = Ok

\* C1: under any interleaving of ToggleComments and CreateComment calls, in
\* the in-memory and in the postgres store, a comment is inserted only while
\* the comments-enabled flag of its post is true: the flag the insert finds
\* is the flag the check read.
C1_InsertedOnlyWhileEnabled ==
    [][ /\ \A c \in DOMAIN comments' \ DOMAIN comments :
               posts[comments'[c].postID].enabled
        /\ \A c \in DOMAIN pgComments' \ DOMAIN pgComments :
               pgPosts[pgComments'[c].postID].enabled ]_vars

\* C2: CreateComment reports the first violated precondition in the order
\* post exists, comments enabled, body valid, parent exists, in the
\* in-memory store (every call, in every state) and in the postgres store
\* (every call that returns within its first statement, where the state it
\* checked is the state it returns in).
C2_FirstViolatedIsReported ==
    /\ \A p \in PostArgs, par \in ParentArgs, b \in Bodies :
           FirstViolated(p \in DOMAIN posts, p \in DOMAIN posts /\ posts[p].enabled, b,
                         par = None \/ par \in DOMAIN comments, CommentError(p, par, b))
    /\ (pgLast.op = "CreateComment" /\ pgLast.atomic) =>
           FirstViolated(pgLast.postID \in DOMAIN pgPosts,
                         pgLast.postID \in DOMAIN pgPosts /\ pgPosts[pgLast.postID].enabled,
                         pgLast.body, FALSE, pgLast.err)

\* The siblings a page lists, and the rows they are in.
RowsOf(pg) == IF pg.store = "postgres" THEN pgComments ELSE comments

SiblingsOf(pg) ==
    {c \in DOMAIN RowsOf(pg) :
        IF pg.op = "Comments"
        THEN RowsOf(pg)[c].postID = pg.target /\ RowsOf(pg)[c].parentID = None
        ELSE RowsOf(pg)[c].parentID = pg.target}

\* The ordered sibling list a page was cut from: an order of the siblings by
\* creation time, siblings of one creation time in an order that agrees with
\* the first page when the page is the second of a walk.
ListOrders(pg) ==
    {o \in TimeOrders(SiblingsOf(pg), RowsOf(pg)) : Take(o, Len(pg.first)) = pg.first}

\* The items of the ordered list o after the cursor (all of them without one).
After(o, cursor) ==
    IF \E i \in DOMAIN o : o[i] = cursor
    THEN SubSeq(o, (CHOOSE i \in DOMAIN o : o[i] = cursor) + 1, Len(o))
    ELSE o

\* The limit a page was asked with.
LimitOf(pg) ==
    LimitOr(pg.limit, IF pg.op = "Comments" THEN DefaultCommentsLimit
                                           ELSE DefaultChildrenLimit)

\* A page answered with no cursor, or with the identifier of a sibling.
Listed(pg) ==
    /\ pg.op \in ListingOps
    /\ ~pg.panic
    /\ pg.chained \/ ~pg.inserted
    /\ pg.cursor = None \/ pg.cursor \in SiblingsOf(pg)

\* C7: a first page and the page asked with its endCursor, with no insertion
\* in between, are together a prefix of the ordered sibling list: nothing
\* twice, nothing skipped between them, also when siblings share a creation
\* time.
C7_TwoPagesArePrefix ==
    page.op \in ListingOps /\ page.chained /\ ~page.inserted =>
        \E o \in ListOrders(page) :
            page.first \o page.items = Take(o, Len(page.first) + Len(page.items))

\* C8: hasNextPage of a listing is true iff strictly more than limit items
\* come after the cursor in the ordered sibling list.
C8_HasNextPageIffMore ==
    Listed(page) =>
        \E o \in ListOrders(page) :
            page.hasNextPage <=> (Len(After(o, page.cursor)) > LimitOf(page))

\* C9: a listing returns exactly the next min(limit, remaining) items after
\* the cursor in the ordered sibling list, never more than limit, and its
\* endCursor is the last returned item, absent exactly when the page is empty.
C9_PageIsNextItems ==
    Listed(page) =>
        /\ Len(page.items) <= LimitOf(page)
        /\ page.endCursor = (IF page.items = <<>> THEN None
                                                  ELSE page.items[Len(page.items)])
        /\ \E o \in ListOrders(page) :
                page.items = Take(After(o, page.cursor), LimitOf(page))

\* The pages the listing of pg may return when asked without cursor.
WithoutCursor(pg) ==
    IF pg.store = "postgres"
    THEN PgPages(pg.op, pg.target, pg.limit, None, pg.first, pg.chained)
    ELSE {MemPage(pg.op, pg.target, pg.limit, None, pg.first, pg.chained)}

\* C10: with a cursor that is no sibling of the listing (an unknown
\* identifier, a comment of another post or of another parent), a listing
\* answers as it may answer without cursor.
C10_ForeignCursorIsNoCursor ==
    (page.op \in ListingOps /\ page.cursor # None /\ page.cursor \notin SiblingsOf(page)) =>
        \E r \in WithoutCursor(page) :
            /\ r.panic = page.panic
            /\ r.items = page.items
            /\ r.hasNextPage = page.hasNextPage
            /\ r.endCursor = page.endCursor

RECURSIVE Ascending(_)
\* The identifiers of S from the smallest up.  The in-memory model numbers
\* its comments as they are created, so this is S in creation order.
Ascending(S) ==
    IF S = {} THEN <<>>
    ELSE LET m == CHOOSE x \in S : \A y \in S : x <= y
         IN <<m>> \o Ascending(S \ {m})

C12_ByTimeThenIdentifier ==
    (page.op \in ListingOps /\ ~page.panic) =>
        \A i, j \in DOMAIN page.items :
            i < j =>
                LET a == RowsOf(page)[page.items[i]]
                    b == RowsOf(page)[page.items[j]]
                IN \/ a.createdAt < b.createdAt
                   \/ a.createdAt = b.createdAt /\ page.items[i] < page.items[j]


\* C13: the map a batch returns has exactly the asked parents as keys; a
\* parent without children, or one that names no stored comment, is mapped
\* to the empty list.
C13_BatchHasEveryKey ==
    page.op = "Batch" =>
        /\ DOMAIN page.result = Range(page.keys)
        /\ \A pID \in Range(page.keys) :
               (\A c \in DOMAIN RowsOf(page) : RowsOf(page)[c].parentID # pID)
                   => page.result[pID] = <<>>

\* C14: the list a batch returns for a parent is the list
\* GetCommentsByParentID returns for it with no cursor and any limit that is
\* at least the number of its children.
C14_BatchIsUnpagedChildren ==
    (page.op = "Batch" /\ page.store = "memory") =>
        \A pID \in Range(page.keys) :
            /\ pID \in DOMAIN page.result
            /\ \A n \in Len(page.result[pID])..(MaxSiblings + 1) :
                   LET answer == GetCommentsByParentID(pID, n, None) IN
                   ~answer.panic /\ answer.rows = page.result[pID]

\* A batch over a parent with two children and a parent with none.
C14_Witness ==
    /\ page.op = "Batch" /\ page.store = "memory"
    /\ Len(page.keys) = 2
    /\ \E pID \in Range(page.keys) : Len(page.result[pID]) = 2
    /\ \E pID \in Range(page.keys) : page.result[pID] = <<>>

\* C15: CommentAdded for a post identifier that names no stored post fails
\* with "post not found" and leaves the registry as it was; for a stored post
\* it adds one subscription with a fresh identifier under that post and
\* changes the subscriber set of no other post.
C15_SubscribeRegistersOne ==
    [][\A p \in PostArgs, fatal \in BOOLEAN :
          CommentAdded(p, fatal) =>
              IF p \notin DOMAIN posts
              THEN last'.err = ErrPostNotFound /\ subs' = subs /\ chans' = chans
              ELSE /\ last'.err = Ok
                   /\ \E s \in SubArgs :
                          /\ s \notin DOMAIN chans
                          /\ p \in DOMAIN subs'
                          /\ subs'[p] = InnerMap(p) \cup {s}
                          /\ Cardinality(subs'[p]) = Cardinality(InnerMap(p)) + 1
                   /\ \A q \in PostArgs \ {p} :
                          /\ q \in DOMAIN subs' <=> q \in DOMAIN subs
                          /\ q \in DOMAIN subs => subs'[q] = subs[q]]_vars

\* A subscription was just registered under one post while the other post
\* keeps its subscriber.
C15_Witness ==
    /\ last.op = "CommentAdded" /\ last.err = Ok
    /\ Cardinality(DOMAIN subs) = 2

\* C16: the registry maps no post to an empty subscriber set, and the
\* removal of a subscription, applied again, changes nothing; a removal
\* that empties a post's set deletes the post's entry.
C16_NoEmptySubscriberSet ==
    /\ \A p \in DOMAIN subs : subs[p] # {}
    /\ \A p \in PostArgs, s \in SubArgs :
           LET once == Remove(subs, p, s) IN
           /\ Remove(once, p, s) = once
           /\ \A q \in DOMAIN once : once[q] # {}
           /\ (p \in DOMAIN subs /\ subs[p] = {s}) => p \notin DOMAIN once

\* The last subscriber of a post was removed while another post still has
\* one.
C16_Witness ==
    /\ \E s \in DOMAIN ctx : ctx[s].state = "done" /\ ctx[s].postID \notin DOMAIN subs
    /\ DOMAIN subs # {}

\* C20: a subscription whose request context is cancelled is removed from
\* the registry in the end, given that its cleanup goroutine is scheduled;
\* the registry holds exactly the subscriptions whose cleanup has not run,
\* so with every cancellation processed it holds the live ones only.
C20_CancelledIsRemoved ==
    /\ \A s \in SubArgs :
           (s \in DOMAIN ctx /\ ctx[s].state = "cancelled") ~> (s \notin Registered)
    /\ [](Registered = {s \in DOMAIN ctx : ctx[s].state # "done"})

\* Two subscriptions were cancelled, both are gone and the registry is empty.
C20_Witness ==
    /\ Cardinality(DOMAIN ctx) = 2
    /\ \A s \in DOMAIN ctx : ctx[s].state = "done"
    /\ subs = <<>>


\* C17: publishing a comment never waits on a subscriber.  At a subscriber's
\* turn the comment is put in its channel if the buffer (capacity 1) has
\* room and is dropped for it if the buffer is full, no other channel
\* changes, and the turn can always be taken; a publication does not end
\* while a subscriber of its post, registered when it started, has room in
\* its buffer and has not had its turn.
C17_PublishNeverWaits ==
    /\ [][\A g \in pubs, s \in SubArgs :
             PublishSend(g, s) =>
                 /\ Len(chans[s]) < ChanCap => chans'[s] = Append(chans[s], g.c)
                 /\ Len(chans[s]) >= ChanCap => chans'[s] = chans[s]
                 /\ \A t \in DOMAIN chans \ {s} : chans'[t] = chans[t]]_vars
    /\ [](~crashed => \A g \in pubs : \A s \in Entries(g) \ g.seen :
                          ENABLED PublishSend(g, s))
    /\ [](crashed => \A g \in pubs : \A s \in Entries(g) \ (g.seen \cup g.late) :
                         Len(chans[s]) >= ChanCap)

\* C18: CreateComment returns what the store returned and leaves the store
\* as the store made it, whatever the observer holds: the notification
\* changes neither the store nor the outcome, and a creation whose comment
\* is stored always gets to return.
C18_CreationIgnoresHub ==
    /\ [][\A p \in PostArgs :
             MutationCreateComment(p, None, <<Run(97, 1)>>) =>
                 /\ last'.err = CommentError(p, None, <<Run(97, 1)>>)
                 /\ mut'.err = last'.err]_vars
    /\ [][MutationNotify => UNCHANGED <<memVars, last>>]_vars
    /\ [](mut # Idle => ~crashed /\ ENABLED MutationNotify)

\* C19: a subscription's channel gets the comments created on its post
\* after it was registered and no others; while only one was created, it
\* finds room in the buffer and is the buffer's content after its turn; once
\* the subscription is torn down its channel gets nothing and neither the
\* registry nor a later publication refers to it.
C19_SubscribeThenCreate ==
    /\ [][\A g \in pubs, s \in SubArgs :
             (PublishSend(g, s) /\ chans'[s] # chans[s]) => g.c > ctx[s].since]_vars
    /\ [][\A g \in pubs, s \in SubArgs :
             (/\ PublishSend(g, s)
              /\ g.c = ctx[s].since + 1
              /\ Cardinality(DOMAIN comments) = g.c) => chans'[s] = <<g.c>>]_vars
    /\ [][\A s \in DOMAIN ctx : ctx[s].state = "done" => chans'[s] = chans[s]]_vars
    /\ [](\A s \in DOMAIN ctx : ctx[s].state = "done" =>
              /\ s \notin Registered
              /\ \A g \in pubs : s \notin Entries(g))


\* C24: ToggleComments on an identifier that names no stored post fails with
\* not-found and changes nothing in the store; on a stored post it sets that
\* post's flag to the value asked for and leaves every other post, every
\* comment and both indexes as they were, so a call that asks for the value
\* the post already has changes nothing.
C24_ToggleChangesOneFlag ==
    [][\A p \in PostArgs, enable \in BOOLEAN :
          ToggleComments(p, enable) =>
              IF p \notin DOMAIN posts
              THEN last'.err = ErrNotFound /\ UNCHANGED memVars
              ELSE /\ last'.err = Ok
                   /\ posts' = [q \in DOMAIN posts |->
                                   IF q = p THEN [enabled |-> enable] ELSE posts[q]]
                   /\ UNCHANGED <<comments, commentsByPost, commentsByParent>>
                   /\ posts[p].enabled = enable => UNCHANGED memVars]_vars

\* A toggle has just succeeded on one of two posts, the other has the other
\* value, and a comment with a reply is stored.
C24_Witness ==
    /\ last.op = "ToggleComments" /\ last.err = Ok
    /\ Cardinality(DOMAIN posts) = 2
    /\ posts[1].enabled # posts[2].enabled
    /\ commentsByPost # <<>> /\ commentsByParent # <<>>

\* C25: every stored comment's post identifier names a stored post, and its
\* parent identifier, when present, names a stored comment created before it
\* (identifiers are handed out in creation order).
C25_CommentsReferToStored ==
    \A c \in DOMAIN comments :
        /\ comments[c].postID \in DOMAIN posts
        /\ comments[c].parentID # None =>
               /\ comments[c].parentID \in DOMAIN comments
               /\ comments[c].parentID < c
               /\ comments[comments[c].parentID].createdAt <= comments[c].createdAt

\* A reply is stored, and calls have failed since: the latest one named a
\* parent that does not exist.
C25_Witness ==
    /\ \E c \in DOMAIN comments : comments[c].parentID # None
    /\ last.op = "CreateComment" /\ last.err = ErrParentNotFound

\* How often an identifier occurs in a list.
Occurrences(list, c) == Cardinality({i \in DOMAIN list : list[i] = c})

\* C26: each stored comment is listed in exactly one index, once: a comment
\* without parent in the root list of its post and in no children list, a
\* reply in the children list of its parent and in no root list; the indexes
\* list stored comments only.  So GetCommentsByPostID never returns a reply
\* and GetCommentsByParentID of its parent returns it.
C26_ListedInOneIndexOnce ==
    /\ \A c \in DOMAIN comments :
           LET p == comments[c].postID
               par == comments[c].parentID
               all == Cardinality(DOMAIN comments)
           IN /\ \A q \in DOMAIN commentsByPost :
                      Occurrences(commentsByPost[q], c) = IF par = None /\ q = p THEN 1 ELSE 0
              /\ \A k \in DOMAIN commentsByParent :
                      Occurrences(commentsByParent[k], c) = IF k = par THEN 1 ELSE 0
              /\ par = None => p \in DOMAIN commentsByPost
              /\ par # None =>
                     /\ par \in DOMAIN commentsByParent
                     /\ c \in Range(GetCommentsByParentID(par, all, None).rows)
                     /\ \A q \in PostArgs : c \notin Range(GetCommentsByPostID(q, all, None).rows)
    /\ \A q \in DOMAIN commentsByPost : Range(commentsByPost[q]) \subseteq DOMAIN comments
    /\ \A k \in DOMAIN commentsByParent : Range(commentsByParent[k]) \subseteq DOMAIN comments

\* A root comment and a reply to it are stored.
C26_Witness ==
    /\ \E c \in DOMAIN comments : comments[c].parentID = None
    /\ \E c \in DOMAIN comments :
           comments[c].parentID # None /\ comments[c].parentID \in DOMAIN commentsByParent

\* C27: every stored comment that has a parent belongs to the post of its
\* parent.
C27_ReplyIsOnParentsPost ==
    \A c \in DOMAIN comments :
        (comments[c].parentID # None /\ comments[c].parentID \in DOMAIN comments) =>
            comments[c].postID = comments[comments[c].parentID].postID

\* C23: what a caller keeps is not the store's own copy: the post a caller
\* was returned reads, through the caller's pointer, the comments-enabled
\* value it had when it was returned, whatever ToggleComments has done
\* since (and likewise the comment a caller was returned), and an
\* assignment to the object the caller keeps changes nothing in the store.
C23_CallerHoldsNoAlias ==
    /\ [](held # NoRef => Deref(held) = held.seen)
    /\ [][\A enabled \in BOOLEAN : WritePostDraft(enabled) => UNCHANGED memVars]_vars
    /\ [][\A p \in PostArgs : WriteCommentDraft(p) => UNCHANGED memVars]_vars

\* C28: a subscriber's channel yields the comments of its post in creation
\* order: a comment it yields, and any comment buffered in it, was created
\* after the comment the client read before (identifiers are handed out in
\* creation order).
C28_DeliveredInCreationOrder ==
    /\ [][\A s \in SubArgs :
             Receive(s) => (ctx[s].got # None => Head(chans[s]) > ctx[s].got)]_vars
    /\ [](\A s \in DOMAIN chans : \A i \in DOMAIN chans[s] :
              /\ ctx[s].got # None => chans[s][i] > ctx[s].got
              /\ \A j \in DOMAIN chans[s] : i < j => chans[s][i] < chans[s][j])

\* C29: the inner map of a post is read and written under Observer.mu only:
\* no goroutine of CreateComment is ranging over the inner map of a post
\* when CommentAdded inserts into it or a cleanup deletes from it, and the
\* runtime never finds an iteration together with a write.
C29_SubscriberSetUnderLock ==
    /\ [][\A p \in PostArgs, fatal \in BOOLEAN :
             (CommentAdded(p, fatal) /\ p \in DOMAIN posts) => Iterating(p) = {}]_vars
    /\ [][\A s \in SubArgs, fatal \in BOOLEAN :
             Cleanup(s, fatal) => Iterating(ctx[s].postID) = {}]_vars
    /\ [](~crashed)

\* C21: when the store call of a batch fails, the Result of every key of the
\* batch carries that error and no data; a batch never has Results with an
\* error next to Results without.
C21_FailureReachesEveryKey ==
    page.op = "Loader" =>
        /\ Len(page.results) = Len(page.keys)
        /\ page.err # Ok =>
               \A i \in DOMAIN page.keys : page.results[i] = [Data |-> <<>>, Error |-> page.err]
        /\ \A i, j \in DOMAIN page.keys :
               (page.results[i].Error = Ok) <=> (page.results[j].Error = Ok)

\* A batch of two keys whose store call failed.
C21_Witness ==
    /\ page.op = "Loader" /\ page.err = ErrDb
    /\ Len(page.keys) = 2

=============================================================================
